---- MODULE Spec2Model ----
(***************************************************************************)
(* The ReCirq documentation material: the table of contents docs/_toc.yaml *)
(* and the two QCQMC tutorial notebooks (high_level.ipynb and              *)
(* full_workflow.ipynb).  The documentation system reads the toc entry by  *)
(* entry; a reader then opens one of the two notebooks from the rendered   *)
(* navigation and runs its cells top to bottom.  Every call into recirq,   *)
(* pyscf, ipie, h5py or the file system is an external step whose outcome  *)
(* (return or raise, and what it returns) the notebooks do not control.    *)
(***************************************************************************)
EXTENDS Integers, Sequences, FiniteSets, TLC

VARIABLES
    tocPos,     \* index of the next toc entry the documentation system reads
    nav,        \* kinds of the toc entries read so far, in order
    nb,         \* path of the notebook being run, or NoNotebook
    pc,         \* index in Program(nb) of the next step
    status,     \* "idle", "running", "raised" or "done"
    exc,        \* the exception that stopped the run ("none" while there is none)
    recirq,     \* the kernel's environment: "importable", "missing" or "broken"
    ns,         \* the kernel's namespace: variable name -> value
    builds,     \* the build_... calls that returned, in order
    calls,      \* names of the external calls made, in order
    raisedLog,  \* every exception raised so far, with whether a handler caught it
    fs,         \* the file system: ipie directory, files present, files written
    fs0,        \* the file system when the run started
    reads       \* the file reads made, in order

vars == <<tocPos, nav, nb, pc, status, exc, recirq, ns, builds, calls,
          raisedLog, fs, fs0, reads>>

(***************************************************************************)
(* docs/_toc.yaml, lines 1-89: the toc list, one record per entry.         *)
(***************************************************************************)
TocGuide ==
    << [heading |-> "ReCirq Guide"],
       [title |-> "Research with ReCirq", path |-> "/cirq/experiments/research"],
       [title |-> "Data collection idioms", path |-> "/cirq/experiments/guide/data_collection_idioms"],
       [title |-> "Data collection", path |-> "/cirq/experiments/guide/data_collection"],
       [title |-> "Data analysis", path |-> "/cirq/experiments/guide/data_analysis"],
       [title |-> "Best practices", path |-> "/cirq/experiments/guide/best_practices"] >>

TocQaoa ==
    << [heading |-> "QAOA"],
       [title |-> "Overview", path |-> "/cirq/experiments/qaoa"],
       [title |-> "Example problems", path |-> "/cirq/experiments/qaoa/example_problems"],
       [title |-> "Tasks", path |-> "/cirq/experiments/qaoa/tasks"],
       [title |-> "Precomputed analysis", path |-> "/cirq/experiments/qaoa/precomputed_analysis"],
       [title |-> "Landscape analysis", path |-> "/cirq/experiments/qaoa/landscape_analysis"],
       [title |-> "Optimization analysis", path |-> "/cirq/experiments/qaoa/optimization_analysis"],
       [title |-> "Hardware grid circuits", path |-> "/cirq/experiments/qaoa/hardware_grid_circuits"],
       [title |-> "Routing with tket", path |-> "/cirq/experiments/qaoa/routing_with_tket"],
       [title |-> "QAOA Max-Cut", path |-> "/cirq/experiments/qaoa/qaoa_maxcut"],
       [title |-> "QAOA: Ising Model", path |-> "/cirq/experiments/qaoa/qaoa_ising"],
       [title |-> "Binary Paintshop", path |-> "/cirq/experiments/qaoa/binary_paintshop"] >>

TocUnitary ==
    << [include |-> "/cirq/experiments/unitary/_toc.yaml"] >>

TocHfvqe ==
    << [heading |-> "Hartree-Fock VQE"],
       [title |-> "Overview", path |-> "/cirq/experiments/hfvqe"],
       [title |-> "Quickstart", path |-> "/cirq/experiments/hfvqe/quickstart"],
       [title |-> "Molecular data", path |-> "/cirq/experiments/hfvqe/molecular_data"] >>

TocFermiHubbard ==
    << [heading |-> "Fermi-Hubbard"],
       [title |-> "Overview", path |-> "/cirq/experiments/fermi_hubbard"],
       [title |-> "Experiment example", path |-> "/cirq/experiments/fermi_hubbard/experiment_example"],
       [title |-> "Spin-charge separation results", path |-> "/cirq/experiments/fermi_hubbard/publication_results"] >>

TocOtoc ==
    << [heading |-> "Quantum scrambling"],
       [title |-> "Overview", path |-> "/cirq/experiments/otoc"],
       [title |-> "Experiment example", path |-> "/cirq/experiments/otoc/otoc_example"] >>

TocToricCode ==
    << [heading |-> "Toric Code"],
       [title |-> "Overview", path |-> "/cirq/experiments/toric_code"],
       [title |-> "Ground State", path |-> "/cirq/experiments/toric_code/toric_code_ground_state"] >>

\* Mutant: a page entry that lost its path.
TocRabi_PageWithoutPath ==
    << [heading |-> "Rabi oscillations"],
       [title |-> "Rabi Oscillation Experiment"] >>

TocRabi ==
    << [heading |-> "Rabi oscillations"],
       [title |-> "Rabi Oscillation Experiment", path |-> "/cirq/experiments/benchmarks/rabi_oscillations"] >>

TocKpz ==
    << [heading |-> "Kardar-Parisi-Zhang"],
       [title |-> "KPZ and the Heisenberg Spin Chain", path |-> "/cirq/experiments/kpz/kpz"] >>

HighLevel == "/cirq/experiments/qcqmc/high_level"

FullWorkflow == "/cirq/experiments/qcqmc/full_workflow"

TocQcqmc ==
    << [heading |-> "Quantum-Classical Quantum Monte Carlo"],
       [title |-> "Overview", path |-> "/cirq/experiments/qcqmc"],
       [title |-> "Code Layout", path |-> HighLevel],
       [title |-> "End-to-End Example", path |-> FullWorkflow],
       [title |-> "Experimental Wavefunctions", path |-> "/cirq/experiments/qcqmc/experimental_wavefunctions"] >>

TocLatticeGauge ==
    << [heading |-> "Lattice Gauge Theory"],
       [title |-> "Simulation of Charges and Strings", path |-> "/cirq/experiments/lattice_gauge/lattice_gauge"] >>

toc ==
    TocGuide \o TocQaoa \o TocUnitary \o TocHfvqe \o TocFermiHubbard \o TocOtoc
        \o TocToricCode \o TocRabi \o TocKpz \o TocQcqmc \o TocLatticeGauge

\* The shape of a toc entry, by the keys it has.
EntryKind(e) ==
    IF DOMAIN e = {"heading"} THEN "heading"
    ELSE IF DOMAIN e = {"title", "path"} THEN "page"
    ELSE IF DOMAIN e = {"include"} THEN "include"
    ELSE "other"

NoNotebook == "none"

Notebooks == {HighLevel, FullWorkflow}


(***************************************************************************)
(* The cells of the two notebooks, as the sequence of their external       *)
(* steps.  A cell with several external calls is several steps.            *)
(***************************************************************************)
\* Mutant: the Hamiltonian cell is run a second time.
HighLevelSteps_RepeatedBuild ==
    << "import_recirq", "pip_install", "build_hamiltonian", "build_hamiltonian",
       "build_trial_wf", "build_blueprint", "build_experiment", "build_analysis" >>

HighLevelSteps ==
    << "import_recirq", "pip_install", "build_hamiltonian", "build_trial_wf",
       "build_blueprint", "build_experiment", "build_analysis" >>

\* Mutant: the last cell is run a second time.
FullWorkflowSteps_RepeatedCell ==
    << "import_recirq", "pip_install", "build_hamiltonian", "build_trial_wf",
       "build_blueprint", "build_experiment", "build_analysis",
       "save_wavefunction_for_ipie", "generic_system",
       "generate_hamiltonian_from_chk", "assert_ham_shapes",
       "read_wavefunction", "particle_hole", "calculate_energy", "afqmc_build",
       "ensure_ipie_dir", "qmc_run", "extract_observable", "reblock_minimal",
       "reblock_minimal" >>

FullWorkflowSteps ==
    << "import_recirq", "pip_install", "build_hamiltonian", "build_trial_wf",
       "build_blueprint", "build_experiment", "build_analysis",
       "save_wavefunction_for_ipie", "generic_system",
       "generate_hamiltonian_from_chk", "assert_ham_shapes",
       "read_wavefunction", "particle_hole", "calculate_energy", "afqmc_build",
       "ensure_ipie_dir", "qmc_run", "extract_observable", "reblock_minimal" >>

Program(n) ==
    IF n = HighLevel THEN HighLevelSteps
    ELSE IF n = FullWorkflow THEN FullWorkflowSteps
    ELSE << >>

\* The step the kernel is about to run.
Step == IF pc \in DOMAIN Program(nb) THEN Program(nb)[pc] ELSE "none"

\* The position of step s in the notebook n (0 when n has no such step).
StepIndex(n, s) ==
    IF \E i \in DOMAIN Program(n) : Program(n)[i] = s
    THEN CHOOSE i \in DOMAIN Program(n) : Program(n)[i] = s
    ELSE 0

\* The names of a sequence's elements, as a set.
Range(q) == { q[i] : i \in DOMAIN q }

\* Python's name binding: var now refers to val.
Bind(n, var, val) == (var :> val) @@ n

(***************************************************************************)
(* Params objects, as the notebooks construct them.  The field that refers *)
(* to the upstream Params keeps its name.                                  *)
(***************************************************************************)
NoParams == [cls |-> "None"]

\* high_level.ipynb
HL_hamiltonian_params ==
    [cls |-> "HamiltonianFileParams", name |-> "4q_pp",
     integral_key |-> "fh_sto3g", n_orb |-> 2, n_elec |-> 2]

HL_trial_wf_params(n) ==
    [cls |-> "PerfectPairingPlusTrialWavefunctionParams", name |-> "4q_pp",
     hamiltonian_params |-> n["hamiltonian_params"]]

HL_blueprint_params(n) ==
    [cls |-> "BlueprintParamsTrialWf", name |-> "4q_pp",
     trial_wf_params |-> n["trial_wf_params"]]

HL_expt_params(n) ==
    [cls |-> "SimulatedExperimentParams", name |-> "4q_pp",
     blueprint_params |-> n["blueprint_params"]]

HL_analysis_params(n) ==
    [cls |-> "OverlapAnalysisParams", name |-> "4q_pp",
     experiment_params |-> n["expt_params"]]

\* Mutant: the SCF job is set up without save_chkfile.
FW_pyscf_params_NoChkfile ==
    [cls |-> "PyscfHamiltonianParams", name |-> "TEST_square_H4",
     n_orb |-> 4, n_elec |-> 4, save_chkfile |-> FALSE,
     overwrite_chk_file |-> TRUE]

\* full_workflow.ipynb
FW_pyscf_params ==
    [cls |-> "PyscfHamiltonianParams", name |-> "TEST_square_H4",
     n_orb |-> 4, n_elec |-> 4, save_chkfile |-> TRUE,
     overwrite_chk_file |-> TRUE]

FW_pp_params(n) ==
    [cls |-> "PerfectPairingPlusTrialWavefunctionParams", name |-> "pp_plus_test",
     hamiltonian_params |-> n["pyscf_params"]]

FW_blueprint_params(n) ==
    [cls |-> "BlueprintParamsTrialWf", name |-> "blueprint_test_medium",
     trial_wf_params |-> n["pp_params"]]

FW_simulated_experiment_params(n) ==
    [cls |-> "SimulatedExperimentParams", name |-> "test_1",
     blueprint_params |-> n["blueprint"].params]

FW_analysis_params(n) ==
    [cls |-> "OverlapAnalysisParams", name |-> "TEST_analysis",
     experiment_params |-> n["experiment"].params]

\* The upstream Params a Params object refers to.
Upstream(p) ==
    CASE p.cls = "PerfectPairingPlusTrialWavefunctionParams" -> p.hamiltonian_params
      [] p.cls = "BlueprintParamsTrialWf" -> p.trial_wf_params
      [] p.cls = "SimulatedExperimentParams" -> p.blueprint_params
      [] p.cls = "OverlapAnalysisParams" -> p.experiment_params
      [] OTHER -> NoParams

(***************************************************************************)
(* The dependencies mappings the notebooks pass, upstream Params -> Data.  *)
(***************************************************************************)
HL_trial_wf_dependencies(n) ==
    n["hamiltonian_params"] :> n["hamiltonian_data"]

HL_blueprint_dependencies(n) ==
    n["trial_wf_params"] :> n["trial_wf_data"]

HL_expt_dependencies(n) ==
    n["blueprint_params"] :> n["blueprint_data"]

HL_analysis_dependencies(n) ==
    (n["expt_params"] :> n["expt_data"])
        @@ (n["blueprint_params"] :> n["blueprint_data"])
        @@ (n["trial_wf_params"] :> n["trial_wf_data"])

FW_trial_wf_dependencies(n) ==
    n["pyscf_params"] :> n["pyscf_hamiltonian"]

FW_blueprint_dependencies(n) ==
    n["pp_params"] :> n["trial_wf"]

\* Mutant: the experiment's dependencies keyed by the trial wavefunction's
\* Params instead of the blueprint's.
FW_experiment_dependencies_WrongKey(n) ==
    n["pp_params"] :> n["blueprint"]

FW_experiment_dependencies(n) ==
    n["blueprint"].params :> n["blueprint"]

\* Mutant: all_dependencies without the Hamiltonian's entry.
FW_all_dependencies_NoHamiltonian(n) ==
    (n["pp_params"] :> n["trial_wf"])
        @@ (n["blueprint_params"] :> n["blueprint"])
        @@ (n["simulated_experiment_params"] :> n["experiment"])

FW_all_dependencies(n) ==
    (n["pyscf_params"] :> n["pyscf_hamiltonian"])
        @@ (n["pp_params"] :> n["trial_wf"])
        @@ (n["blueprint_params"] :> n["blueprint"])
        @@ (n["simulated_experiment_params"] :> n["experiment"])

\* The Data object a build_... factory returns for params: it keeps the
\* Params it was built from in its params field.
DataOf(cls, params) == [cls |-> cls, params |-> params]


(***************************************************************************)
(* The file system.  A path is a base name and a suffix.                   *)
(***************************************************************************)
\* Params.base_path: a path fixed by the Params object.
BasePath(params) == params.name

\* pathlib's with_suffix.
WithSuffix(base, suffix) == [base |-> base, suffix |-> suffix]

\* chk_path = pyscf_params.base_path.with_suffix(".chk")
ChkPath(params) == WithSuffix(BasePath(params), ".chk")

\* Where save_wavefunction_for_ipie may put the wavefunction (its choice).
IpieExportPaths ==
    { WithSuffix("pp_plus_test", ".h5"), WithSuffix("TEST_analysis", ".h5") }

\* The file the AFQMC driver may keep its estimates in, given
\* estimator_filename='<ipie_path>/estimates.h5' (its choice: the notebook
\* notes that the data is by default saved to estimates.0.h5).
EstimatesPaths ==
    { WithSuffix("estimates", ".h5"), WithSuffix("estimates.0", ".h5") }

\* What an earlier, possibly interrupted, run may have left behind.
Leftovers ==
    { {},
      {ChkPath(FW_pyscf_params)} \cup IpieExportPaths,
      {ChkPath(FW_pyscf_params)} \cup IpieExportPaths \cup EstimatesPaths }

\* ipie_path is absent, a plain file, or a directory with its entries.
IpieDirStates(present) ==
    IF present \cap EstimatesPaths # {}
    THEN { [kind |-> "dir", entries |-> present \cap EstimatesPaths] }
    ELSE { [kind |-> "absent", entries |-> {}],
           [kind |-> "file", entries |-> {}],
           [kind |-> "dir", entries |-> {}] }

InitialFileSystems ==
    UNION { { [ipie_dir |-> d, present |-> present, written |-> {}] :
                d \in IpieDirStates(present) } : present \in Leftovers }

\* A step writes the file at path.
WriteFile(f, path) ==
    [f EXCEPT !.present = @ \cup {path}, !.written = @ \cup {path}]

(***************************************************************************)
(* Control: advancing to the next step, raising, the outcomes of a call.   *)
(***************************************************************************)
\* What an external call may do: return, or raise some error of its own.
ExternalOutcomes == {"ok", "RuntimeError"}

\* The step at pc returned: go on to the step `by` places further.
Advance(by) ==
    /\ pc' = pc + by
    /\ status' = IF pc + by > Len(Program(nb)) THEN "done" ELSE "running"
    /\ exc' = exc
    /\ raisedLog' = raisedLog

\* The step raised e and no handler of the notebook caught it: the run stops.
\* (calls' is set by the caller, before.)
Raise(step, e) ==
    /\ pc' = pc
    /\ status' = "raised"
    /\ exc' = e
    /\ raisedLog' = Append(raisedLog,
            [step |-> step, exc |-> e, handled |-> FALSE, ncalls |-> Len(calls')])

(***************************************************************************)
(* Init: nothing rendered, no notebook open; the environment is arbitrary. *)
(***************************************************************************)
Init ==
    /\ tocPos = 1
    /\ nav = << >>
    /\ nb = NoNotebook
    /\ pc = 0
    /\ status = "idle"
    /\ exc = "none"
    /\ recirq \in {"importable", "missing", "broken"}
    /\ ns = [v \in {} |-> v]
    /\ builds = << >>
    /\ calls = << >>
    /\ raisedLog = << >>
    /\ fs \in InitialFileSystems
    /\ fs0 = fs
    /\ reads = << >>

\* The documentation system reads the next entry of the toc.
ReadTocEntry ==
    /\ tocPos \in DOMAIN toc
    /\ nav' = Append(nav, EntryKind(toc[tocPos]))
    /\ tocPos' = tocPos + 1
    /\ UNCHANGED <<nb, pc, status, exc, recirq, ns, builds, calls, raisedLog,
                   fs, fs0, reads>>

\* The reader opens one of the notebook pages the navigation lists.
OpenNotebook ==
    /\ tocPos > Len(toc)
    /\ nb = NoNotebook
    /\ \E i \in DOMAIN toc :
        /\ EntryKind(toc[i]) = "page"
        /\ toc[i].path \in Notebooks
        /\ nb' = toc[i].path
    /\ pc' = 1
    /\ status' = "running"
    /\ UNCHANGED <<tocPos, nav, exc, recirq, ns, builds, calls, raisedLog,
                   fs, fs0, reads>>

(***************************************************************************)
(* Links between the notebooks.                                            *)
(***************************************************************************)
\* The page shown for a link that leads to no page.
NotFound == "not_found"

\* [high-level](high-level.ipynb), in the first cell of the end-to-end example
FW_intro_link ==
    [text |-> "high-level", target |-> WithSuffix("high-level", ".ipynb")]

\* The notebook a link names: its target without the .ipynb suffix.
LinkedNotebook(link) == link.target.base

\* The components of the paths under the heading of TocQcqmc.
PathComponents(path) ==
    CASE path = "/cirq/experiments/qcqmc" ->
            << "cirq", "experiments", "qcqmc" >>
      [] path = HighLevel ->
            << "cirq", "experiments", "qcqmc", "high_level" >>
      [] path = FullWorkflow ->
            << "cirq", "experiments", "qcqmc", "full_workflow" >>
      [] path = "/cirq/experiments/qcqmc/experimental_wavefunctions" ->
            << "cirq", "experiments", "qcqmc", "experimental_wavefunctions" >>

LastComponent(path) == PathComponents(path)[Len(PathComponents(path))]

\* The paths of the pages listed under the heading of TocQcqmc.
QcqmcPaths ==
    { TocQcqmc[i].path : i \in { k \in DOMAIN TocQcqmc :
                                    EntryKind(TocQcqmc[k]) = "page" } }

\* The listed pages whose last path component is the notebook a link names.
LinkTargets(link) ==
    { path \in QcqmcPaths : LastComponent(path) = LinkedNotebook(link) }

\* The reader of the end-to-end example follows the link of its first cell,
\* before running any cell.
FollowLink ==
    /\ nb = FullWorkflow
    /\ status = "running"
    /\ pc = 1
    /\ IF LinkTargets(FW_intro_link) # {}
       THEN /\ nb' \in LinkTargets(FW_intro_link)
            /\ pc' = IF nb' \in Notebooks THEN 1 ELSE 0
            /\ status' = IF nb' \in Notebooks THEN "running" ELSE "idle"
       ELSE /\ nb' = NotFound
            /\ pc' = 0
            /\ status' = "idle"
    /\ UNCHANGED <<tocPos, nav, exc, recirq, ns, builds, calls, raisedLog,
                   fs, fs0, reads>>

(***************************************************************************)
(* The Setup cell of both notebooks:                                       *)
(*     try: import recirq                                                  *)
(*     except ImportError: %pip install git+https://.../ReCirq             *)
(***************************************************************************)
\* What `import recirq` does in the kernel's environment.
ImportOutcome(env) ==
    CASE env = "importable" -> "ok"
      [] env = "missing" -> "ImportError"
      [] OTHER -> "AttributeError"

\* Mutant: a bare `except:` in the Setup cell.
SetupCatches_Everything(e) == TRUE

\* The except clause of the Setup cell: which exceptions it catches.
SetupCatches(e) == e = "ImportError"

\* Mutant: the pip install is run after a successful import too.
AfterImport_RunsInstall(out) == 1

\* How many steps on the Setup cell continues after `import recirq`: into
\* the handler's pip install after a caught exception, past it otherwise.
AfterImport(out) == IF out = "ok" THEN 2 ELSE 1

ImportRecirq ==
    /\ status = "running"
    /\ Step = "import_recirq"
    /\ calls' = Append(calls, "import recirq")
    /\ LET out == ImportOutcome(recirq) IN
        IF out = "ok" THEN Advance(AfterImport(out))
        ELSE IF SetupCatches(out)
        THEN /\ pc' = pc + AfterImport(out)
             /\ status' = "running"
             /\ exc' = exc
             /\ raisedLog' = Append(raisedLog,
                    [step |-> "import_recirq", exc |-> out, handled |-> TRUE,
                     ncalls |-> Len(calls')])
        ELSE Raise("import_recirq", out)
    /\ UNCHANGED <<tocPos, nav, nb, recirq, ns, builds, fs, fs0, reads>>

\* %pip install: the magic runs pip and does not raise when pip fails.
PipInstall ==
    /\ status = "running"
    /\ Step = "pip_install"
    /\ calls' = Append(calls, "pip install")
    /\ \E installed \in BOOLEAN :
        recirq' = IF installed THEN "importable" ELSE recirq
    /\ Advance(1)
    /\ UNCHANGED <<tocPos, nav, nb, ns, builds, fs, fs0, reads>>


(***************************************************************************)
(* The five build steps.  Each cell binds its Params, calls the factory    *)
(* with the arguments below, and binds what the factory returns.           *)
(***************************************************************************)
\* The arguments of each build call, read from the namespace n.
HL_build_hamiltonian_args(n) ==
    [params |-> n["hamiltonian_params"]]

\* Mutant: the trial wavefunction is built without its dependencies.
HL_build_trial_wf_args_NoDependencies(n) ==
    [params |-> n["trial_wf_params"]]

HL_build_trial_wf_args(n) ==
    [params |-> n["trial_wf_params"], dependencies |-> HL_trial_wf_dependencies(n)]

HL_build_blueprint_args(n) ==
    [params |-> n["blueprint_params"], dependencies |-> HL_blueprint_dependencies(n)]

HL_build_experiment_args(n) ==
    [params |-> n["expt_params"], dependencies |-> HL_expt_dependencies(n)]

HL_build_analysis_args(n) ==
    [params |-> n["analysis_params"], dependencies |-> HL_analysis_dependencies(n)]

FW_build_hamiltonian_args(n) ==
    [params |-> n["pyscf_params"]]

FW_build_trial_wf_args(n) ==
    [params |-> n["pp_params"], dependencies |-> FW_trial_wf_dependencies(n)]

FW_build_blueprint_args(n) ==
    [params |-> n["blueprint_params"], dependencies |-> FW_blueprint_dependencies(n)]

FW_build_experiment_args(n) ==
    [params |-> n["simulated_experiment_params"],
     dependencies |-> FW_experiment_dependencies(n)]

FW_build_analysis_args(n) ==
    [params |-> n["analysis_params"], dependencies |-> FW_all_dependencies(n)]

\* One entry of the log of build calls: the factory, the Data class it
\* builds, the arguments it got, whether it returned, and what it returned.
BuildRecord(factory, cls, args, returned) ==
    [factory |-> factory, cls |-> cls, args |-> args, returned |-> returned,
     data |-> DataOf(cls, args.params)]

\* build_hamiltonian_from_pyscf keeps the SCF checkpoint when the Params ask
\* for it (save_chkfile), replacing an older one only with overwrite_chk_file.
WritesChk(params, f) ==
    /\ params.cls = "PyscfHamiltonianParams"
    /\ params.save_chkfile
    /\ params.overwrite_chk_file \/ ChkPath(params) \notin f.present

\* A cell's `from recirq.qcqmc... import ...` needs recirq in the environment.
RecirqImports == recirq = "importable"

\* A build cell: pvar = <Params>; dvar = factory(**args), where args was
\* read from the namespace with pvar bound.
BuildStep(step, factory, cls, pvar, dvar, args) ==
    /\ status = "running"
    /\ Step = step
    /\ IF ~RecirqImports
       THEN /\ calls' = calls
            /\ Raise(step, "ImportError")
            /\ UNCHANGED <<ns, builds, fs>>
       ELSE \E out \in ExternalOutcomes :
            /\ calls' = Append(calls, factory)
            /\ builds' = Append(builds, BuildRecord(factory, cls, args, out = "ok"))
            /\ IF out = "ok"
               THEN /\ Advance(1)
                    /\ ns' = Bind(Bind(ns, pvar, args.params), dvar,
                                  DataOf(cls, args.params))
                    /\ fs' = IF WritesChk(args.params, fs)
                             THEN WriteFile(fs, ChkPath(args.params)) ELSE fs
               ELSE /\ Raise(step, out)
                    /\ ns' = Bind(ns, pvar, args.params)
                    /\ fs' = fs
    /\ UNCHANGED <<tocPos, nav, nb, recirq, fs0, reads>>

\* HamiltonianData.build_hamiltonian_from_file(hamiltonian_params)       (high_level)
\* HamiltonianData.build_hamiltonian_from_pyscf(pyscf_params)         (full_workflow)
BuildHamiltonian ==
    IF nb = HighLevel
    THEN BuildStep("build_hamiltonian", "build_hamiltonian_from_file",
            "HamiltonianData", "hamiltonian_params", "hamiltonian_data",
            HL_build_hamiltonian_args(
                Bind(ns, "hamiltonian_params", HL_hamiltonian_params)))
    ELSE BuildStep("build_hamiltonian", "build_hamiltonian_from_pyscf",
            "HamiltonianData", "pyscf_params", "pyscf_hamiltonian",
            FW_build_hamiltonian_args(Bind(ns, "pyscf_params", FW_pyscf_params)))

BuildTrialWf ==
    IF nb = HighLevel
    THEN BuildStep("build_trial_wf", "build_pp_plus_trial_from_dependencies",
            "TrialWavefunctionData", "trial_wf_params", "trial_wf_data",
            HL_build_trial_wf_args(
                Bind(ns, "trial_wf_params", HL_trial_wf_params(ns))))
    ELSE BuildStep("build_trial_wf", "build_pp_plus_trial_from_dependencies",
            "TrialWavefunctionData", "pp_params", "trial_wf",
            FW_build_trial_wf_args(Bind(ns, "pp_params", FW_pp_params(ns))))

BuildBlueprint ==
    IF nb = HighLevel
    THEN BuildStep("build_blueprint", "build_blueprint_from_dependencies",
            "BlueprintData", "blueprint_params", "blueprint_data",
            HL_build_blueprint_args(
                Bind(ns, "blueprint_params", HL_blueprint_params(ns))))
    ELSE BuildStep("build_blueprint", "build_blueprint_from_dependencies",
            "BlueprintData", "blueprint_params", "blueprint",
            FW_build_blueprint_args(
                Bind(ns, "blueprint_params", FW_blueprint_params(ns))))

BuildExperiment ==
    IF nb = HighLevel
    THEN BuildStep("build_experiment", "build_experiment_from_dependencies",
            "ExperimentData", "expt_params", "expt_data",
            HL_build_experiment_args(Bind(ns, "expt_params", HL_expt_params(ns))))
    ELSE BuildStep("build_experiment", "build_experiment_from_dependencies",
            "ExperimentData", "simulated_experiment_params", "experiment",
            FW_build_experiment_args(
                Bind(ns, "simulated_experiment_params",
                     FW_simulated_experiment_params(ns))))

BuildAnalysis ==
    IF nb = HighLevel
    THEN BuildStep("build_analysis", "build_analysis_from_dependencies",
            "OverlapAnalysisData", "analysis_params", "analysis_data",
            HL_build_analysis_args(
                Bind(ns, "analysis_params", HL_analysis_params(ns))))
    ELSE BuildStep("build_analysis", "build_analysis_from_dependencies",
            "OverlapAnalysisData", "analysis_params", "analysis",
            FW_build_analysis_args(
                Bind(ns, "analysis_params", FW_analysis_params(ns))))

(***************************************************************************)
(* full_workflow.ipynb: the export to ipie and the AFQMC run.              *)
(***************************************************************************)
\* A step that only calls external code: it returns or raises.
ExternalCall(step, names) ==
    /\ status = "running"
    /\ Step = step
    /\ calls' = calls \o names
    /\ \E out \in ExternalOutcomes :
        IF out = "ok" THEN Advance(1) ELSE Raise(step, out)

\* ipie_data = save_wavefunction_for_ipie(hamiltonian_data=pyscf_hamiltonian,
\*     trial_wf_data=trial_wf, overlap_analysis_data=analysis, do_print=False)
SaveWavefunctionForIpie ==
    /\ status = "running"
    /\ Step = "save_wavefunction_for_ipie"
    /\ IF ~RecirqImports
       THEN /\ calls' = calls
            /\ Raise("save_wavefunction_for_ipie", "ImportError")
            /\ UNCHANGED <<ns, fs>>
       ELSE \E out \in ExternalOutcomes, path \in IpieExportPaths :
            /\ calls' = Append(calls, "save_wavefunction_for_ipie")
            /\ IF out = "ok"
               THEN /\ Advance(1)
                    /\ fs' = WriteFile(fs, path)
                    /\ ns' = Bind(ns, "ipie_data",
                            [cls |-> "IPieExportData", path |-> path,
                             hamiltonian_data |-> ns["pyscf_hamiltonian"],
                             trial_wf_data |-> ns["trial_wf"],
                             overlap_analysis_data |-> ns["analysis"]])
               ELSE /\ Raise("save_wavefunction_for_ipie", out)
                    /\ UNCHANGED <<ns, fs>>
    /\ UNCHANGED <<tocPos, nav, nb, recirq, builds, fs0, reads>>

\* num_elec = (pyscf_params.n_elec // 2,) * 2
\* Mutant: the odd electron given to the first spin sector.
NumElec_Ceil(params) ==
    << (params.n_elec + 1) \div 2, params.n_elec \div 2 >>

NumElec(params) == << params.n_elec \div 2, params.n_elec \div 2 >>

\* num_elec = ...; system = Generic(num_elec)
GenericSystem ==
    /\ ExternalCall("generic_system", << "Generic" >>)
    /\ ns' = Bind(ns, "num_elec", NumElec(ns["pyscf_params"]))
    /\ UNCHANGED <<tocPos, nav, nb, recirq, builds, fs, fs0, reads>>

\* The largest rank of array generate_hamiltonian_from_chk is taken to return.
MaxRank == 3

\* The shapes ham.H1 may come back with, and the first dimensions of ham.chol.
H1Shapes(params) ==
    UNION { [1..k -> {2, params.n_orb}] : k \in 2..MaxRank }

CholDims(params) ==
    { params.n_orb, params.n_orb * params.n_orb, 2 * params.n_orb * params.n_orb }

\* A step opens the file at path for reading.
ReadRecord(by, path) == [by |-> by, path |-> path, fresh |-> path \in fs.written]

\* chk_path = pyscf_params.base_path.with_suffix(".chk")
\* ham = generate_hamiltonian_from_chk(str(chk_path))
GenerateHamiltonianFromChk ==
    /\ status = "running"
    /\ Step = "generate_hamiltonian_from_chk"
    /\ calls' = Append(calls, "generate_hamiltonian_from_chk")
    /\ LET chk_path == ChkPath(ns["pyscf_params"]) IN
        IF chk_path \notin fs.present
        THEN /\ Raise("generate_hamiltonian_from_chk", "FileNotFoundError")
             /\ ns' = Bind(ns, "chk_path", chk_path)
             /\ reads' = reads
        ELSE \E out \in ExternalOutcomes,
                shape \in H1Shapes(ns["pyscf_params"]),
                chol0 \in CholDims(ns["pyscf_params"]) :
            /\ reads' = Append(reads, ReadRecord("generate_hamiltonian_from_chk", chk_path))
            /\ IF out = "ok"
               THEN /\ Advance(1)
                    /\ ns' = Bind(Bind(ns, "chk_path", chk_path), "ham",
                            [H1_shape |-> shape, chol_shape0 |-> chol0])
               ELSE /\ Raise("generate_hamiltonian_from_chk", out)
                    /\ ns' = Bind(ns, "chk_path", chk_path)
    /\ UNCHANGED <<tocPos, nav, nb, recirq, builds, fs, fs0>>

\* Mutant: the first assert compares the number of dimensions only.
H1ShapeOk_RankOnly(ham, params) == Len(ham.H1_shape) = 3

\* ham.H1.shape == (2, pyscf_params.n_orb, pyscf_params.n_orb)
H1ShapeOk(ham, params) == ham.H1_shape = << 2, params.n_orb, params.n_orb >>

\* ham.chol.shape[0] == pyscf_params.n_orb * pyscf_params.n_orb
CholShapeOk(ham, params) == ham.chol_shape0 = params.n_orb * params.n_orb

\* The two assert statements that end the cell.
AssertHamShapes ==
    /\ status = "running"
    /\ Step = "assert_ham_shapes"
    /\ calls' = calls
    /\ IF H1ShapeOk(ns["ham"], ns["pyscf_params"])
            /\ CholShapeOk(ns["ham"], ns["pyscf_params"])
       THEN Advance(1)
       ELSE Raise("assert_ham_shapes", "AssertionError")
    /\ UNCHANGED <<tocPos, nav, nb, recirq, ns, builds, fs, fs0, reads>>

\* with h5py.File(ipie_data.path, 'r') as fh5: coeffs, occa, occb = ...
ReadWavefunction ==
    /\ status = "running"
    /\ Step = "read_wavefunction"
    /\ calls' = Append(calls, "h5py.File")
    /\ LET path == ns["ipie_data"].path IN
        IF path \notin fs.present
        THEN /\ Raise("read_wavefunction", "FileNotFoundError")
             /\ reads' = reads
        ELSE \E out \in ExternalOutcomes :
            /\ reads' = Append(reads, ReadRecord("h5py.File", path))
            /\ IF out = "ok" THEN Advance(1) ELSE Raise("read_wavefunction", out)
    /\ UNCHANGED <<tocPos, nav, nb, recirq, ns, builds, fs, fs0>>

\* wfn = ParticleHole((coeffs, occa, occb), num_elec, pyscf_params.n_orb)
\* wfn.half_rotate(ham)
ParticleHole ==
    /\ ExternalCall("particle_hole", << "ParticleHole", "wfn.half_rotate" >>)
    /\ ns' = Bind(ns, "wfn",
            [cls |-> "ParticleHole", num_elec |-> ns["num_elec"],
             n_orb |-> ns["pyscf_params"].n_orb])
    /\ UNCHANGED <<tocPos, nav, nb, recirq, builds, fs, fs0, reads>>

\* wfn.calculate_energy(system, ham)
\* assert np.isclose(wfn.energy.real, ipie_data.variational_energy)
CalculateEnergy ==
    /\ status = "running"
    /\ Step = "calculate_energy"
    /\ calls' = Append(calls, "wfn.calculate_energy")
    /\ \E out \in ExternalOutcomes \cup {"AssertionError"} :
        IF out = "ok" THEN Advance(1) ELSE Raise("calculate_energy", out)
    /\ UNCHANGED <<tocPos, nav, nb, recirq, ns, builds, fs, fs0, reads>>

\* qmc_driver = AFQMC.build(num_elec, ham, wfn, num_blocks=300, num_walkers=50, seed=7)
AfqmcBuild ==
    /\ ExternalCall("afqmc_build", << "AFQMC.build" >>)
    /\ ns' = Bind(ns, "qmc_driver",
            [cls |-> "AFQMC", num_elec |-> ns["num_elec"],
             estimators |-> [filename |-> WithSuffix("", "")]])
    /\ UNCHANGED <<tocPos, nav, nb, recirq, builds, fs, fs0, reads>>

\* Mutant: the test of the directory without its `not`.
NeedsMkdir_Inverted(d) == d.kind = "dir"

\* `not ipie_path.is_dir()`
NeedsMkdir(d) == d.kind # "dir"

\* ipie_path.mkdir(parents=True): creates the directory, or raises when the
\* path exists already (FileExistsError) or may not be created.
MkdirOutcomes(d) ==
    IF d.kind = "absent" THEN {"ok", "PermissionError"} ELSE {"FileExistsError"}

\* if not ipie_path.is_dir():
\*     ipie_path.mkdir(parents=True)
EnsureIpieDir ==
    /\ status = "running"
    /\ Step = "ensure_ipie_dir"
    /\ IF NeedsMkdir(fs.ipie_dir)
       THEN /\ calls' = calls \o << "ipie_path.is_dir", "ipie_path.mkdir" >>
            /\ \E out \in MkdirOutcomes(fs.ipie_dir) :
                IF out = "ok"
                THEN /\ Advance(1)
                     /\ fs' = [fs EXCEPT !.ipie_dir = [kind |-> "dir", entries |-> {}]]
                ELSE /\ Raise("ensure_ipie_dir", out)
                     /\ fs' = fs
       ELSE /\ calls' = Append(calls, "ipie_path.is_dir")
            /\ Advance(1)
            /\ fs' = fs
    /\ UNCHANGED <<tocPos, nav, nb, recirq, ns, builds, fs0, reads>>

\* qmc_driver.run(estimator_filename=f'{ipie_path}/estimates.h5')
QmcRun ==
    /\ status = "running"
    /\ Step = "qmc_run"
    /\ calls' = Append(calls, "qmc_driver.run")
    /\ IF fs.ipie_dir.kind # "dir"
       THEN /\ Raise("qmc_run", "FileNotFoundError")
            /\ UNCHANGED <<ns, fs>>
       ELSE \E out \in ExternalOutcomes, filename \in EstimatesPaths :
            IF out = "ok"
            THEN /\ Advance(1)
                 /\ fs' = [WriteFile(fs, filename) EXCEPT
                            !.ipie_dir.entries = @ \cup {filename}]
                 /\ ns' = Bind(ns, "qmc_driver",
                        [ns["qmc_driver"] EXCEPT !.estimators.filename = filename])
            ELSE /\ Raise("qmc_run", out)
                 /\ UNCHANGED <<ns, fs>>
    /\ UNCHANGED <<tocPos, nav, nb, recirq, builds, fs0, reads>>

\* A step that reads the estimates file the driver names.
ReadEstimates(step, name) ==
    /\ status = "running"
    /\ Step = step
    /\ calls' = Append(calls, name)
    /\ LET path == ns["qmc_driver"].estimators.filename IN
        IF path \notin fs.present
        THEN /\ Raise(step, "FileNotFoundError")
             /\ reads' = reads
        ELSE \E out \in ExternalOutcomes :
            /\ reads' = Append(reads, ReadRecord(name, path))
            /\ IF out = "ok" THEN Advance(1) ELSE Raise(step, out)
    /\ UNCHANGED <<tocPos, nav, nb, recirq, ns, builds, fs, fs0>>

\* data = extract_observable(qmc_driver.estimators.filename)
ExtractObservable == ReadEstimates("extract_observable", "extract_observable")

\* reblock_minimal(qmc_driver.estimators.filename, start_block=20)
ReblockMinimal == ReadEstimates("reblock_minimal", "reblock_minimal")

Next ==
    \/ ReadTocEntry
    \/ OpenNotebook
    \/ FollowLink
    \/ ImportRecirq
    \/ PipInstall
    \/ BuildHamiltonian
    \/ BuildTrialWf
    \/ BuildBlueprint
    \/ BuildExperiment
    \/ BuildAnalysis
    \/ SaveWavefunctionForIpie
    \/ GenericSystem
    \/ GenerateHamiltonianFromChk
    \/ AssertHamShapes
    \/ ReadWavefunction
    \/ ParticleHole
    \/ CalculateEnergy
    \/ AfqmcBuild
    \/ EnsureIpieDir
    \/ QmcRun
    \/ ExtractObservable
    \/ ReblockMinimal

Spec == Init /\ [][Next]_vars

(***************************************************************************)
(* The end-to-end notebook with pyscf_params.n_elec ranging over the       *)
(* non-negative integers up to MaxNElec, every other cell as written.      *)
(***************************************************************************)
\* The largest n_elec given to PyscfHamiltonianParams.
MaxNElec == 5

\* pyscf_params = PyscfHamiltonianParams(..., n_elec=n_elec, ...)
PyscfParamsWith(n_elec) == [FW_pyscf_params EXCEPT !.n_elec = n_elec]

\* The Hamiltonian cell, with n_elec chosen in the end-to-end notebook.
BuildHamiltonianWithNElec ==
    IF nb = HighLevel
    THEN BuildStep("build_hamiltonian", "build_hamiltonian_from_file",
            "HamiltonianData", "hamiltonian_params", "hamiltonian_data",
            HL_build_hamiltonian_args(
                Bind(ns, "hamiltonian_params", HL_hamiltonian_params)))
    ELSE \E n_elec \in 0..MaxNElec :
            BuildStep("build_hamiltonian", "build_hamiltonian_from_pyscf",
                "HamiltonianData", "pyscf_params", "pyscf_hamiltonian",
                FW_build_hamiltonian_args(
                    Bind(ns, "pyscf_params", PyscfParamsWith(n_elec))))

NextWithNElec ==
    \/ ReadTocEntry
    \/ OpenNotebook
    \/ FollowLink
    \/ ImportRecirq
    \/ PipInstall
    \/ BuildHamiltonianWithNElec
    \/ BuildTrialWf
    \/ BuildBlueprint
    \/ BuildExperiment
    \/ BuildAnalysis
    \/ SaveWavefunctionForIpie
    \/ GenericSystem
    \/ GenerateHamiltonianFromChk
    \/ AssertHamShapes
    \/ ReadWavefunction
    \/ ParticleHole
    \/ CalculateEnergy
    \/ AfqmcBuild
    \/ EnsureIpieDir
    \/ QmcRun
    \/ ExtractObservable
    \/ ReblockMinimal

SpecWithNElec == Init /\ [][NextWithNElec]_vars


(***************************************************************************)
(* Properties.                                                             *)
(***************************************************************************)
\* The order of the pipeline: the Data class of each stage.
Pipeline ==
    << "HamiltonianData", "TrialWavefunctionData", "BlueprintData",
       "ExperimentData", "OverlapAnalysisData" >>

\* Whether a build call was given a dependencies mapping.
HasDependencies(b) == "dependencies" \in DOMAIN b.args

\* C1: in both notebooks, every call of a build_..._from_dependencies factory
\* passes a dependencies mapping that has, as a key, the upstream Params its
\* own Params refers to, and the value under that key is the Data an earlier
\* build call returned for exactly that Params.
C1_DependenciesHoldUpstream ==
    \A i \in DOMAIN builds :
        HasDependencies(builds[i]) =>
            LET deps == builds[i].args.dependencies
                up == Upstream(builds[i].args.params)
            IN  /\ up # NoParams
                /\ up \in DOMAIN deps
                /\ \E j \in 1..(i - 1) :
                    /\ builds[j].returned
                    /\ builds[j].args.params = up
                    /\ builds[j].data = deps[up]

\* C1 witness: the end-to-end notebook has made all five build calls, the
\* experiment's among them with blueprint.params as its key.
C1_Witness ==
    /\ nb = FullWorkflow
    /\ Len(builds) = Len(Pipeline)
    /\ builds[Len(Pipeline)].returned
    /\ \A i \in 2..Len(Pipeline) : HasDependencies(builds[i])

\* C2: in both notebooks the Data objects are built in the order Hamiltonian,
\* trial wavefunction, blueprint, experiment, overlap analysis: the build
\* calls made so far are the first stages of that order, each once, each made
\* only after the one before it returned, and a run that ends has made and
\* completed exactly the five.
C2_BuildsInPipelineOrder ==
    /\ Len(builds) <= Len(Pipeline)
    /\ \A i \in DOMAIN builds :
        /\ builds[i].cls = Pipeline[i]
        /\ i < Len(builds) => builds[i].returned
    /\ status = "done" =>
        /\ Len(builds) = Len(Pipeline)
        /\ \A i \in DOMAIN builds : builds[i].returned

\* C2 witness: a notebook ran to its end.
C2_Witness ==
    /\ status = "done"
    /\ nb = HighLevel
    /\ Len(builds) = Len(Pipeline)

\* C3 as stated: every build call, the Hamiltonian's included, receives both
\* a Params object and a dependencies mapping.
C3_EveryBuildGetsDependencies ==
    \A i \in DOMAIN builds :
        /\ "params" \in DOMAIN builds[i].args
        /\ HasDependencies(builds[i])

\* C3 amended: every build call receives a Params object; the calls of the
\* four downstream stages also receive a dependencies mapping, and the
\* Hamiltonian's call (build_hamiltonian_from_file, build_hamiltonian_from_pyscf)
\* receives none.
C3_DownstreamBuildsGetDependencies ==
    \A i \in DOMAIN builds :
        /\ "params" \in DOMAIN builds[i].args
        /\ builds[i].args.params # NoParams
        /\ HasDependencies(builds[i]) <=> builds[i].cls # "HamiltonianData"

\* C3 witness: both kinds of call were made, in the end-to-end notebook.
C3_Witness ==
    /\ nb = FullWorkflow
    /\ Len(builds) >= 2
    /\ builds[1].factory = "build_hamiltonian_from_pyscf"
    /\ ~HasDependencies(builds[1])
    /\ HasDependencies(builds[2])


\* C4 as stated: no exception is caught by the notebooks' own code; every
\* exception raised, a failing import of recirq included, stops the run.
C4_NoExceptionCaught ==
    \A i \in DOMAIN raisedLog :
        /\ ~raisedLog[i].handled
        /\ status = "raised"
        /\ exc = raisedLog[i].exc

\* C4 amended: the only exception the notebooks' own code catches is an
\* ImportError raised by `import recirq` in the Setup cell; every other
\* exception stops the run where it was raised and reaches the user.
C4_OnlySetupImportErrorCaught ==
    /\ \A i \in DOMAIN raisedLog :
        LET r == raisedLog[i] IN
            /\ r.handled <=> (r.step = "import_recirq" /\ r.exc = "ImportError")
            /\ ~r.handled =>
                /\ i = Len(raisedLog)
                /\ status = "raised"
                /\ exc = r.exc
                /\ Step = r.step
                /\ Len(calls) = r.ncalls
    /\ status = "raised" =>
        /\ raisedLog # << >>
        /\ ~raisedLog[Len(raisedLog)].handled

\* C4 witness: the Setup cell caught an ImportError, the install did not
\* help, and the next cell's ImportError stopped the run.
C4_Witness ==
    /\ Len(raisedLog) = 2
    /\ raisedLog[1].handled
    /\ ~raisedLog[2].handled
    /\ raisedLog[2].exc = "ImportError"
    /\ status = "raised"

\* Every external call the end-to-end notebook's text holds, in order.
FW_AllCalls ==
    << "import recirq", "pip install", "build_hamiltonian_from_pyscf",
       "build_pp_plus_trial_from_dependencies", "build_blueprint_from_dependencies",
       "build_experiment_from_dependencies", "build_analysis_from_dependencies",
       "save_wavefunction_for_ipie", "Generic", "generate_hamiltonian_from_chk",
       "h5py.File", "ParticleHole", "wfn.half_rotate", "wfn.calculate_energy",
       "AFQMC.build", "ipie_path.is_dir", "ipie_path.mkdir", "qmc_driver.run",
       "extract_observable", "reblock_minimal" >>

\* The two calls the notebook guards with a condition.
GuardedCalls == {"pip install", "ipie_path.mkdir"}

IsUnguarded(c) == c \notin GuardedCalls

\* How often the call c was made.
Count(c) == Cardinality({ i \in DOMAIN calls : calls[i] = c })

\* C5 as stated: every run of the end-to-end workflow makes the same external
\* calls, each exactly once, whatever the environment.
C5_SameCallsEveryRun ==
    (nb = FullWorkflow /\ status = "done") => calls = FW_AllCalls

\* C5 amended: but for the two guarded calls (pip install, made only when
\* `import recirq` raises ImportError, and ipie_path.mkdir, made only when
\* ipie_path is no directory), every run of the end-to-end workflow makes the
\* same external calls in the same order, each once: a run in progress or
\* stopped by an exception has made the first of them, a run that ended all.
C5_SameUnguardedCallsEveryRun ==
    nb = FullWorkflow =>
        LET made == SelectSeq(calls, IsUnguarded)
            all == SelectSeq(FW_AllCalls, IsUnguarded)
        IN  /\ Len(made) <= Len(all)
            /\ \A i \in DOMAIN made : made[i] = all[i]
            /\ status = "done" => made = all
            /\ \A c \in GuardedCalls : Count(c) <= 1

\* C5 witness: a run that ended after installing recirq and without mkdir.
C5_Witness ==
    /\ nb = FullWorkflow
    /\ status = "done"
    /\ Count("pip install") = 1
    /\ Count("ipie_path.mkdir") = 0

\* C6 as stated: every toc entry is a heading entry or a page entry with a
\* title and a path.
C6_EntriesAreHeadingsOrPages ==
    \A i \in DOMAIN nav : nav[i] \in {"heading", "page"}

\* C6 amended: every toc entry is a heading entry (only a heading key), a
\* page entry with a title and a path, or an include entry (only an include
\* key); no entry of any other shape occurs.
C6_EntriesAreHeadingsPagesOrIncludes ==
    \A i \in DOMAIN nav : nav[i] \in {"heading", "page", "include"}

\* C6 witness: the whole toc was read, its include entry too.
C6_Witness ==
    /\ tocPos > Len(toc)
    /\ Len(nav) = Len(toc)
    /\ "include" \in Range(nav)
    /\ "page" \in Range(nav)

\* C7: in the end-to-end workflow, past the two assertions that follow
\* generate_hamiltonian_from_chk, ham.H1 has shape (2, n_orb, n_orb) and
\* ham.chol has first dimension n_orb * n_orb, n_orb being that of the
\* PyscfHamiltonianParams the checkpoint came from; the later (AFQMC) steps
\* are reached in no other case.
C7_ShapesHoldPastAssertions ==
    (nb = FullWorkflow /\ pc > StepIndex(FullWorkflow, "assert_ham_shapes")) =>
        LET n_orb == builds[1].args.params.n_orb IN
            /\ builds[1].factory = "build_hamiltonian_from_pyscf"
            /\ ns["ham"].H1_shape = << 2, n_orb, n_orb >>
            /\ ns["ham"].chol_shape0 = n_orb * n_orb

\* C7 witness: the run is past the assertions.
C7_Witness ==
    /\ nb = FullWorkflow
    /\ status = "running"
    /\ Step = "read_wavefunction"
    /\ ns["ham"].chol_shape0 = ns["pyscf_params"].n_orb * ns["pyscf_params"].n_orb

\* C8: in the Setup cell the pip install runs if and only if `import recirq`
\* raises ImportError: no install after a successful import; after an
\* ImportError the install runs and the ImportError does not stop the run;
\* any other exception of the import is not caught.
C8_InstallIffImportError ==
    LET importRaised(e) ==
            \E i \in DOMAIN raisedLog :
                raisedLog[i].step = "import_recirq" /\ raisedLog[i].exc = e
        imported == "import recirq" \in Range(calls)
        installed == "pip install" \in Range(calls)
    IN  /\ Count("pip install") <= 1
        /\ installed => importRaised("ImportError")
        /\ importRaised("ImportError") =>
            /\ installed \/ (status = "running" /\ Step = "pip_install")
            /\ ~(status = "raised" /\ Step = "import_recirq")
            /\ \A i \in DOMAIN raisedLog :
                raisedLog[i].step = "import_recirq" => raisedLog[i].handled
        /\ \A i \in DOMAIN raisedLog :
            (raisedLog[i].step = "import_recirq" /\ raisedLog[i].exc # "ImportError") =>
                /\ ~raisedLog[i].handled
                /\ status = "raised"
                /\ exc = raisedLog[i].exc
                /\ ~installed
        /\ (imported /\ \A i \in DOMAIN raisedLog : raisedLog[i].step # "import_recirq") =>
            ~installed

\* C8 witness: the import raised ImportError, the install ran and the
\* notebook went on.
C8_Witness ==
    /\ nb = HighLevel
    /\ "pip install" \in Range(calls)
    /\ Step = "build_trial_wf"
    /\ status = "running"

\* C9: in the end-to-end workflow every file a step reads was written by an
\* earlier step of the same run at the same path: the checkpoint at
\* pyscf_params.base_path with suffix .chk by build_hamiltonian_from_pyscf,
\* the wavefunction file at ipie_data.path by save_wavefunction_for_ipie, and
\* the estimates file is read only after qmc_driver.run completed.
C9_ReadsFollowWrites ==
    nb = FullWorkflow =>
        \A i \in DOMAIN reads :
            LET r == reads[i] IN
                /\ r.fresh
                /\ r.path \in fs.written
                /\ r.by = "generate_hamiltonian_from_chk" =>
                    /\ builds[1].factory = "build_hamiltonian_from_pyscf"
                    /\ builds[1].returned
                    /\ builds[1].args.params.save_chkfile
                    /\ r.path = ChkPath(builds[1].args.params)
                /\ r.by = "h5py.File" =>
                    /\ "save_wavefunction_for_ipie" \in Range(calls)
                    /\ r.path = ns["ipie_data"].path
                /\ r.by \in {"extract_observable", "reblock_minimal"} =>
                    /\ "qmc_driver.run" \in Range(calls)
                    /\ pc > StepIndex(FullWorkflow, "qmc_run")
                    /\ r.path = ns["qmc_driver"].estimators.filename

\* C9 witness: a run that ended, with all four reads, where older files of
\* the same names were lying around.
C9_Witness ==
    /\ nb = FullWorkflow
    /\ status = "done"
    /\ Len(reads) = 4
    /\ ChkPath(FW_pyscf_params) \in fs0.present
    /\ EstimatesPaths \subseteq fs0.present

\* C10: in the end-to-end workflow ipie_path is a directory at the moment
\* qmc_driver.run is called, whether it was absent or a directory at first;
\* mkdir is called only when ipie_path.is_dir() is false, and a directory
\* that exists already is left as it is.
C10_IpieDirExistsAtRun ==
    nb = FullWorkflow =>
        /\ (status = "running" /\ Step = "qmc_run") =>
            /\ fs.ipie_dir.kind = "dir"
            /\ fs0.ipie_dir.kind \in {"absent", "dir"}
        /\ "ipie_path.mkdir" \in Range(calls) => fs0.ipie_dir.kind # "dir"
        /\ (fs0.ipie_dir.kind = "dir" /\ pc <= StepIndex(FullWorkflow, "qmc_run")) =>
            fs.ipie_dir = fs0.ipie_dir

\* C10 witness: the directory was absent, mkdir made it, and the driver is
\* about to run.
C10_Witness ==
    /\ nb = FullWorkflow
    /\ status = "running"
    /\ Step = "qmc_run"
    /\ fs0.ipie_dir.kind = "absent"
    /\ "ipie_path.mkdir" \in Range(calls)


\* C11: in the end-to-end workflow the mapping all_dependencies given to
\* build_analysis_from_dependencies has exactly one entry for each of the
\* four upstream stages, and every Params reached from analysis_params by
\* following the upstream references (experiment, blueprint, trial
\* wavefunction, Hamiltonian) is a key of it, mapped to the Data built from
\* that Params; in particular the key blueprint_params equals blueprint.params.
C11_AllDependenciesCoverUpstream ==
    (nb = FullWorkflow /\ Len(builds) = Len(Pipeline)) =>
        LET call == builds[Len(Pipeline)]
            deps == call.args.dependencies
            experiment_params == Upstream(call.args.params)
            blueprint_params == Upstream(experiment_params)
            trial_wf_params == Upstream(blueprint_params)
            hamiltonian_params == Upstream(trial_wf_params)
            chain == << hamiltonian_params, trial_wf_params, blueprint_params,
                        experiment_params >>
        IN  /\ call.factory = "build_analysis_from_dependencies"
            /\ Cardinality(DOMAIN deps) = Len(chain)
            /\ \A k \in DOMAIN chain :
                /\ chain[k] # NoParams
                /\ chain[k] \in DOMAIN deps
                /\ builds[k].returned
                /\ builds[k].cls = Pipeline[k]
                /\ builds[k].args.params = chain[k]
                /\ deps[chain[k]] = builds[k].data
                /\ Cardinality({ q \in DOMAIN deps : deps[q].cls = Pipeline[k] }) = 1
            /\ ns["blueprint_params"] = ns["blueprint"].params
            /\ ns["blueprint_params"] = blueprint_params

\* C11 witness: the end-to-end notebook built the overlap analysis.
C11_Witness ==
    /\ nb = FullWorkflow
    /\ Len(builds) = Len(Pipeline)
    /\ builds[Len(Pipeline)].returned
    /\ "analysis" \in DOMAIN ns
    /\ Cardinality(DOMAIN builds[Len(Pipeline)].args.dependencies) > 1


\* The electron-count variables of the end-to-end notebook are all bound.
NumElecPassed ==
    /\ nb = FullWorkflow
    /\ {"pyscf_params", "num_elec", "wfn", "qmc_driver"} \subseteq DOMAIN ns

\* C12 as stated: num_elec, as passed to the ipie system, trial wavefunction
\* and AFQMC driver, is a pair of two equal non-negative integers whose sum
\* equals pyscf_params.n_elec, for every non-negative n_elec.
C12_NumElecSumsToNElec ==
    NumElecPassed =>
        LET num_elec == ns["num_elec"]
        IN  /\ Len(num_elec) = 2
            /\ num_elec[1] = num_elec[2]
            /\ num_elec[1] \in Nat
            /\ ns["wfn"].num_elec = num_elec
            /\ ns["qmc_driver"].num_elec = num_elec
            /\ num_elec[1] + num_elec[2] = ns["pyscf_params"].n_elec

\* C12 amended: num_elec, as passed to the ipie system, trial wavefunction
\* and AFQMC driver, is a pair of two equal non-negative integers, each the
\* floor of n_elec / 2; its sum equals pyscf_params.n_elec when n_elec is
\* even and n_elec - 1 when n_elec is odd.
C12_NumElecSumsToEvenPart ==
    NumElecPassed =>
        LET num_elec == ns["num_elec"]
            n_elec == ns["pyscf_params"].n_elec
        IN  /\ Len(num_elec) = 2
            /\ num_elec[1] = num_elec[2]
            /\ num_elec[1] \in Nat
            /\ ns["wfn"].num_elec = num_elec
            /\ ns["qmc_driver"].num_elec = num_elec
            /\ num_elec[1] + num_elec[2] = n_elec - (n_elec % 2)
            /\ num_elec[1] + num_elec[2] \in {n_elec - 1, n_elec}

\* C12 witness: the AFQMC driver was built for an odd number of electrons.
C12_Witness ==
    /\ NumElecPassed
    /\ ns["pyscf_params"].n_elec % 2 = 1
    /\ ns["pyscf_params"].n_elec > 1
    /\ ns["qmc_driver"].num_elec[1] + ns["qmc_driver"].num_elec[2]
        = ns["pyscf_params"].n_elec - 1


\* C13: every cross-reference from one QCQMC notebook to another resolves to a
\* page listed in the table of contents: the notebook name linked from the
\* end-to-end example equals the last path component of a path entry under
\* the "Quantum-Classical Quantum Monte Carlo" heading, so that following
\* the link never ends on a missing page, and each of those path entries is
\* unique within the toc.
C13_CrossReferencesResolve ==
    /\ nb # NotFound
    /\ nb = FullWorkflow =>
        \E path \in QcqmcPaths :
            LastComponent(path) = LinkedNotebook(FW_intro_link)
    /\ \A path \in QcqmcPaths :
        Cardinality({ i \in DOMAIN toc :
            EntryKind(toc[i]) = "page" /\ toc[i].path = path }) = 1

====
